---- MODULE Spec2Model ----
(***************************************************************************)
(* Model of rag_core: the PgVectorStore (connection life cycle, document   *)
(* and chunk CRUD, similarity search) over the schema that ensure_schema   *)
(* creates.  The database is modelled by the declarative meaning of the    *)
(* SQL statements the store issues and by the transaction status of the    *)
(* one psycopg connection the store owns.  Spec is the store, SpecWith the *)
(* store as a context manager, SpecSchema the schema manager, SpecRerank   *)
(* the reranker, SpecRetry the retry_with_backoff wrapper, SpecGrade the   *)
(* deterministic graders and SpecFilters MetadataFilter.build_filters.     *)
(***************************************************************************)
EXTENDS Integers, Sequences, FiniteSets, TLC

(***************************************************************************)
(* Bounds of the model.                                                    *)
(***************************************************************************)
MaxBatch == 2
MaxTopK == 2
MaxResults == 3
MaxReranks == 2

(***************************************************************************)
(* Program constants.                                                      *)
(***************************************************************************)
EMBEDDING_DIM == 1536

(***************************************************************************)
(* Value pools.  A datetime is [t, tz]: wall clock reading and whether the *)
(* value is timezone aware (datetime.utcnow() is naive).  An optional int  *)
(* is NoneInt when absent, an optional string is a sequence of length <= 1.*)
(* An embedding is [dim, x, y]: a list of dim floats whose first two       *)
(* components are x and y and whose other components are 0.  Components    *)
(* are counted in units of half a single-precision step, so that the even  *)
(* numbers are the values a float4 can hold.                               *)
(***************************************************************************)
DocIds == {"d1", "d2"}
ChunkIds == {"c1", "c2"}
NoneInt == -1

Naive(t) == [t |-> t, tz |-> FALSE]
Aware(t) == [t |-> t, tz |-> TRUE]

Emb(x, y) == [dim |-> EMBEDDING_DIM, x |-> x, y |-> y]

\* Metadata values: Python str, list, tuple and set objects with string items.
Str(s) == [kind |-> "str", v |-> <<s>>]
List(s) == [kind |-> "list", v |-> s]
Tuple(s) == [kind |-> "tuple", v |-> s]
PySet(s) == [kind |-> "set", v |-> s]

EmptyMeta == << >>
MetaA == ("category" :> Str("A"))
MetaATags == ("category" :> Str("A")) @@ ("tags" :> Tuple(<<"x", "y">>))
MetaBTags == ("category" :> Str("B")) @@ ("tags" :> List(<<"x">>))
MetaSet == ("seen" :> PySet(<<"x">>))

Range(s) == {s[i] : i \in DOMAIN s}

(***************************************************************************)
(* The pydantic models.  Document and Chunk build the values a caller can  *)
(* pass to the store; v selects one of a few field assignments.            *)
(***************************************************************************)
Document(id, v) ==
    [id |-> id,
     title |-> CASE v = 1 -> "Manual" [] v = 2 -> "Manual v2" [] OTHER -> "Notes",
     source_uri |-> CASE v = 1 -> "s3://a" [] v = 2 -> "s3://b" [] OTHER -> "s3://c",
     content |-> IF v = 2 THEN <<"body">> ELSE << >>,
     metadata |-> CASE v = 1 -> EmptyMeta [] v = 2 -> MetaATags [] OTHER -> MetaSet,
     ingested_at |-> IF v = 1 THEN Naive(1) ELSE Aware(2),
     updated_at |-> IF v = 1 THEN Naive(1) ELSE Aware(2)]

Chunk(id, document_id, v) ==
    [id |-> id,
     document_id |-> document_id,
     text |-> CASE v = 1 -> "alpha" [] v = 2 -> "beta" [] v = 3 -> "gamma"
                [] v = 4 -> "delta" [] v = 5 -> "eps" [] OTHER -> "zeta",
     embedding |-> CASE v = 1 -> Emb(2, 0) [] v = 2 -> Emb(0, 2) [] v = 3 -> Emb(3, 0)
                     [] v = 4 -> Emb(-2, 0) [] v = 5 -> Emb(0, 0) [] OTHER -> Emb(2, 2),
     metadata |-> CASE v = 1 -> MetaA [] v = 2 -> MetaATags [] v = 3 -> MetaBTags
                    [] v = 4 -> EmptyMeta [] v = 5 -> MetaA [] OTHER -> MetaSet,
     chunk_index |-> IF v = 2 THEN 1 ELSE 0,
     start_char |-> IF v = 2 THEN 0 ELSE NoneInt,
     end_char |-> IF v = 2 THEN 5 ELSE NoneInt,
     created_at |-> IF v = 2 THEN Aware(2) ELSE Naive(1),
     updated_at |-> IF v = 2 THEN Aware(2) ELSE Naive(1)]

\* A validator that cuts or fills the list to the configured length instead of
\* rejecting it.
validate_embedding_dimension_Pads(v) ==
    [outcome |-> "ok", value |-> <<[v EXCEPT !.dim = EMBEDDING_DIM]>>]

\* @field_validator("embedding"): raises unless len(v) == EMBEDDING_DIM, and
\* returns v itself otherwise.
validate_embedding_dimension(v) ==
    IF v.dim # EMBEDDING_DIM
    THEN [outcome |-> "ValidationError", value |-> << >>]
    ELSE [outcome |-> "ok", value |-> <<v>>]

\* Chunk(id=..., document_id=..., embedding=..., ...): the constructor runs the
\* validator and builds the value from what the validator returns.
NewChunk(id, document_id, v, embedding) ==
    LET e == validate_embedding_dimension(embedding)
    IN IF e.outcome # "ok" THEN [outcome |-> e.outcome, chunk |-> << >>]
       ELSE [outcome |-> "ok",
             chunk |-> <<[Chunk(id, document_id, v) EXCEPT !.embedding = e.value[1]]>>]

\* The embedding lists that callers hand to the constructor: of the configured
\* length, of 100 floats, and one float too long.
Embeddings ==
    {Emb(2, 0), Emb(1, 1), [dim |-> 100, x |-> 2, y |-> 0],
     [dim |-> EMBEDDING_DIM + 1, x |-> 2, y |-> 0]}

\* The documents and chunks that callers pass to the store.
Documents == {Document("d1", 1), Document("d1", 2), Document("d2", 1), Document("d2", 3)}

Chunks == {Chunk("c1", "d1", 1), Chunk("c1", "d2", 2), Chunk("c2", "d1", 3),
           Chunk("c2", "d2", 4), Chunk("c2", "d1", 5), Chunk("c2", "d1", 6)}

\* The chunks that batches are made of.
BatchChunks == {Chunk("c1", "d1", 1), Chunk("c2", "d1", 3), Chunk("c2", "d1", 6)}

(***************************************************************************)
(* Type adapters registered by connect(): json.dumps / json.loads for      *)
(* JSONB, the pgvector adapter for vector(dim), and the TIMESTAMPTZ        *)
(* columns of the schema.                                                  *)
(***************************************************************************)
\* json.dumps raises TypeError on a value that is not JSON serialisable.
JsonSerialisable(metadata) ==
    \A k \in DOMAIN metadata : metadata[k].kind # "set"

\* What json.loads returns for what json.dumps wrote: a tuple comes back a list.
Jsonb(metadata) ==
    [k \in DOMAIN metadata |->
        IF metadata[k].kind = "tuple" THEN List(metadata[k].v) ELSE metadata[k]]

\* A float stored in a vector column is rounded to single precision.
Float4(x) == IF x % 2 = 0 THEN x ELSE x + 1

Vector(embedding) ==
    [dim |-> embedding.dim, x |-> Float4(embedding.x), y |-> Float4(embedding.y)]

\* A TIMESTAMPTZ column returns timezone-aware datetimes.
TimestampTz(ts) == [t |-> ts.t, tz |-> TRUE]

(***************************************************************************)
(* Rows written by the INSERT ... ON CONFLICT (id) DO UPDATE statements.   *)
(***************************************************************************)
DocumentRow(doc) ==
    [id |-> doc.id, title |-> doc.title, source_uri |-> doc.source_uri,
     content |-> doc.content, metadata |-> Jsonb(doc.metadata),
     ingested_at |-> TimestampTz(doc.ingested_at),
     updated_at |-> TimestampTz(doc.updated_at)]

ChunkRow(chunk) ==
    [id |-> chunk.id, document_id |-> chunk.document_id, text |-> chunk.text,
     embedding |-> Vector(chunk.embedding), metadata |-> Jsonb(chunk.metadata),
     chunk_index |-> chunk.chunk_index, start_char |-> chunk.start_char,
     end_char |-> chunk.end_char,
     created_at |-> TimestampTz(chunk.created_at),
     updated_at |-> TimestampTz(chunk.updated_at)]

\* An update list that forgets the title column.
DocConflictUpdate_NoTitle(old, new) ==
    [new EXCEPT !.ingested_at = old.ingested_at, !.title = old.title]

\* ON CONFLICT (id) DO UPDATE SET of upsert_document: ingested_at is kept.
DocConflictUpdate(old, new) ==
    [new EXCEPT !.ingested_at = old.ingested_at]

\* An update list that names every column.
ChunkConflictUpdate_EveryColumn(old, new) == new

\* ON CONFLICT (id) DO UPDATE SET of upsert_chunk: document_id and created_at are kept.
ChunkConflictUpdate(old, new) ==
    [new EXCEPT !.document_id = old.document_id, !.created_at = old.created_at]

\* A table is a function from the ids present to their rows.
Put(table, row) ==
    [k \in DOMAIN table \cup {row.id} |-> IF k = row.id THEN row ELSE table[k]]

\* The documents table after the upsert statement for doc.
InsertDocument(documents, doc) ==
    IF doc.id \in DOMAIN documents
    THEN Put(documents, DocConflictUpdate(documents[doc.id], DocumentRow(doc)))
    ELSE Put(documents, DocumentRow(doc))

\* A chunks table without the foreign key.
ForeignKeyViolated_Never(data, chunk) == FALSE

\* chunks.document_id REFERENCES documents(id): checked for an inserted row only.
ForeignKeyViolated(data, chunk) ==
    /\ chunk.id \notin DOMAIN data.chunks
    /\ chunk.document_id \notin DOMAIN data.documents

\* The chunks table after the upsert statement for chunk (no violation).
InsertChunk(chunks, chunk) ==
    IF chunk.id \in DOMAIN chunks
    THEN Put(chunks, ChunkConflictUpdate(chunks[chunk.id], ChunkRow(chunk)))
    ELSE Put(chunks, ChunkRow(chunk))

\* A schema whose foreign key lacks ON DELETE CASCADE.
CascadeDelete_NoCascade(chunks, doc_id) == chunks

\* ON DELETE CASCADE: the chunks that survive the deletion of document doc_id.
CascadeDelete(chunks, doc_id) ==
    LET keep == {k \in DOMAIN chunks : chunks[k].document_id # doc_id}
    IN [k \in keep |-> chunks[k]]

\* DELETE FROM documents WHERE id = doc_id, with its cascade.
DeleteDocumentRows(data, doc_id) ==
    [documents |-> [k \in DOMAIN data.documents \ {doc_id} |-> data.documents[k]],
     chunks |-> CascadeDelete(data.chunks, doc_id)]

(***************************************************************************)
(* The store.  conn is self._conn: "none" (None), "open" or "closed" (a    *)
(* connection object whose closed attribute is true).  txstatus is the     *)
(* transaction status of the connection (psycopg opens a transaction with  *)
(* the first statement and keeps it until commit).  db is the committed    *)
(* content of the two tables, tx their content as seen inside the          *)
(* connection's transaction.  last is the most recent call: its arguments, *)
(* the state of self._conn when it was made, and how it ended.             *)
(***************************************************************************)
VARIABLES conn, txstatus, db, tx, last

\* The database that ensure_schema works on.  engine is the set of index
\* access methods the server offers, catalog the committed schema objects
\* (the extension, the tables, the indexes), ddl the most recent call of the
\* schema manager.
VARIABLES engine, catalog, ddl

\* Whether control is inside a `with PgVectorStore(...) as store:` block
\* ("in") or not ("out").
VARIABLES block

\* The reranker.  strategy is self.strategy; objs is the heap of
\* RetrievalResult objects, results the list the caller holds (references
\* into objs), rr the most recent rerank call.
VARIABLES strategy, objs, results, rr

\* The utilities.  rt is a call of a function wrapped by retry_with_backoff:
\* the decorator's arguments, the position of the wrapper and what it has
\* done so far.  gd is the most recent call of a grader, bf the most recent
\* call of build_filters.
VARIABLES rt, gd, bf

utilVars == <<rt, gd, bf>>

vars ==
    <<conn, txstatus, db, tx, last, engine, catalog, ddl, block,
      strategy, objs, results, rr, rt, gd, bf>>

EmptyTables == [documents |-> << >>, chunks |-> << >>]

Store == [conn |-> conn, txstatus |-> txstatus, db |-> db, tx |-> tx]

\* What a call returns or raises, with the store it leaves behind.
\* opened tells whether the call made a new connection (psycopg.connect).
Res(s, outcome) ==
    [s |-> s, outcome |-> outcome, found |-> FALSE, row |-> << >>, results |-> << >>,
     opened |-> FALSE]

\* `if not self._conn: raise RuntimeError("Not connected. Call connect() first.")`
NotConnected(s) == s.conn = "none"

\* self._conn.cursor() raises OperationalError on a closed connection.
CursorFails(s) == s.conn = "closed"

\* psycopg issues BEGIN ahead of the first statement of a transaction.
Begun(s) == [s EXCEPT !.txstatus = IF @ = "idle" THEN "intrans" ELSE @]

\* self._conn.commit()
Commit(s) == [s EXCEPT !.db = s.tx, !.txstatus = "idle"]

\* A statement the server rejects aborts the transaction; nothing rolls it back.
Abort(s) == [s EXCEPT !.tx = s.db, !.txstatus = "inerror"]

\* psycopg.connect(...): a fresh session sees the committed tables.
OpenConnection(s) ==
    [Res([s EXCEPT !.conn = "open", !.txstatus = "idle", !.tx = s.db], "ok")
        EXCEPT !.opened = TRUE]

\* A connect that opens a connection whatever self._conn is.
connect_Always(s) == OpenConnection(s)

connect(s) ==
    IF s.conn = "none" \/ s.conn = "closed"
    THEN OpenConnection(s)
    ELSE Res(s, "ok")

\* self._conn.close(): the server discards the open transaction.
close(s) ==
    IF s.conn = "open"
    THEN Res([s EXCEPT !.conn = "closed", !.txstatus = "idle", !.tx = s.db], "ok")
    ELSE Res(s, "ok")

\* __enter__: connect, and the store itself is what the block gets.
__enter__(s) == connect(s)

\* An __exit__ that returns True: the exception of the block is swallowed.
__exit___Suppresses(s, exc) == close(s)

\* __exit__(exc_type, exc_val, exc_tb): close; it returns None, so that the
\* exception that left the block, if any, goes on to the caller.  exc is
\* "ok" when the block was left normally.
__exit__(s, exc) == [close(s) EXCEPT !.outcome = exc]

upsert_document(s, doc) ==
    IF NotConnected(s) THEN Res(s, "RuntimeError")
    ELSE IF CursorFails(s) THEN Res(s, "OperationalError")
    ELSE IF ~JsonSerialisable(doc.metadata) THEN Res(Begun(s), "TypeError")
    ELSE IF s.txstatus = "inerror" THEN Res(s, "InFailedSqlTransaction")
    ELSE Res(Commit([Begun(s) EXCEPT !.tx.documents = InsertDocument(@, doc)]), "ok")

get_document(s, doc_id) ==
    IF NotConnected(s) THEN Res(s, "RuntimeError")
    ELSE IF CursorFails(s) THEN Res(s, "OperationalError")
    ELSE IF s.txstatus = "inerror" THEN Res(s, "InFailedSqlTransaction")
    ELSE [Res(Begun(s), "ok") EXCEPT
            !.row = IF doc_id \in DOMAIN s.tx.documents
                    THEN <<s.tx.documents[doc_id]>> ELSE << >>]

\* A delete that reports success whatever the row count.
delete_document_AlwaysFound(s, doc_id) ==
    IF NotConnected(s) THEN Res(s, "RuntimeError")
    ELSE IF CursorFails(s) THEN Res(s, "OperationalError")
    ELSE IF s.txstatus = "inerror" THEN Res(s, "InFailedSqlTransaction")
    ELSE [Res(Commit([Begun(s) EXCEPT !.tx = DeleteDocumentRows(@, doc_id)]), "ok")
            EXCEPT !.found = TRUE]

delete_document(s, doc_id) ==
    IF NotConnected(s) THEN Res(s, "RuntimeError")
    ELSE IF CursorFails(s) THEN Res(s, "OperationalError")
    ELSE IF s.txstatus = "inerror" THEN Res(s, "InFailedSqlTransaction")
    ELSE [Res(Commit([Begun(s) EXCEPT !.tx = DeleteDocumentRows(@, doc_id)]), "ok")
            EXCEPT !.found = doc_id \in DOMAIN s.tx.documents]

\* One execution of the chunk upsert statement inside the open transaction.
ExecuteChunkUpsert(s, chunk) ==
    IF ~JsonSerialisable(chunk.metadata) THEN Res(s, "TypeError")
    ELSE IF s.txstatus = "inerror" THEN Res(s, "InFailedSqlTransaction")
    ELSE IF ForeignKeyViolated(s.tx, chunk) THEN Res(Abort(s), "ForeignKeyViolation")
    ELSE Res([s EXCEPT !.tx.chunks = InsertChunk(@, chunk)], "ok")

upsert_chunk(s, chunk) ==
    IF NotConnected(s) THEN Res(s, "RuntimeError")
    ELSE IF CursorFails(s) THEN Res(s, "OperationalError")
    ELSE LET r == ExecuteChunkUpsert(Begun(s), chunk)
         IN IF r.outcome = "ok" THEN Res(Commit(r.s), "ok") ELSE r

\* cur.executemany: the statement is run for each parameter set in turn.
RECURSIVE executemany(_, _)
executemany(s, chunks) ==
    IF chunks = << >> THEN Res(s, "ok")
    ELSE LET r == ExecuteChunkUpsert(s, Head(chunks))
         IN IF r.outcome = "ok" THEN executemany(r.s, Tail(chunks)) ELSE r

\* A batch upsert that sends the first chunk only.
upsert_chunks_batch_FirstOnly(s, chunks) ==
    IF chunks = << >> THEN Res(s, "ok")
    ELSE IF NotConnected(s) THEN Res(s, "RuntimeError")
    ELSE IF CursorFails(s) THEN Res(s, "OperationalError")
    ELSE LET r == executemany(Begun(s), <<Head(chunks)>>)
         IN IF r.outcome = "ok" THEN Res(Commit(r.s), "ok") ELSE r

upsert_chunks_batch(s, chunks) ==
    IF chunks = << >> THEN Res(s, "ok")
    ELSE IF NotConnected(s) THEN Res(s, "RuntimeError")
    ELSE IF CursorFails(s) THEN Res(s, "OperationalError")
    ELSE LET r == executemany(Begun(s), chunks)
         IN IF r.outcome = "ok" THEN Res(Commit(r.s), "ok") ELSE r

get_chunk(s, chunk_id) ==
    IF NotConnected(s) THEN Res(s, "RuntimeError")
    ELSE IF CursorFails(s) THEN Res(s, "OperationalError")
    ELSE IF s.txstatus = "inerror" THEN Res(s, "InFailedSqlTransaction")
    ELSE [Res(Begun(s), "ok") EXCEPT
            !.row = IF chunk_id \in DOMAIN s.tx.chunks
                    THEN <<s.tx.chunks[chunk_id]>> ELSE << >>]

(***************************************************************************)
(* Similarity search.  A similarity is the cosine num / sqrt(den2); it is  *)
(* NaN when den2 = 0 (pgvector's cosine distance of a zero vector).  A     *)
(* threshold is the rational n / d with n >= 0 and d > 0.                  *)
(***************************************************************************)
Dot(a, b) == a.x * b.x + a.y * b.y
Norm2(a) == a.x * a.x + a.y * a.y

\* 1 - (embedding <=> query_embedding)
Similarity(embedding, query) ==
    [num |-> Dot(embedding, query), den2 |-> Norm2(embedding) * Norm2(query)]

IsNaN(sim) == sim.den2 = 0

\* similarity >= threshold; Postgres orders NaN above every number.
AtLeast(sim, threshold) ==
    \/ IsNaN(sim)
    \/ /\ sim.num >= 0
       /\ sim.num * sim.num * threshold.d * threshold.d
            >= threshold.n * threshold.n * sim.den2

\* sim1 > sim2 for two similarities that are numbers.
Greater(sim1, sim2) ==
    CASE sim1.num >= 0 /\ sim2.num < 0 -> TRUE
      [] sim1.num < 0 /\ sim2.num >= 0 -> FALSE
      [] sim1.num >= 0 /\ sim2.num >= 0 ->
            sim1.num * sim1.num * sim2.den2 > sim2.num * sim2.num * sim1.den2
      [] OTHER ->
            sim1.num * sim1.num * sim2.den2 < sim2.num * sim2.num * sim1.den2

\* (embedding <=> q) of row a is smaller than that of row b; NaN sorts last.
Closer(a, b, q) ==
    LET sa == Similarity(a.embedding, q)
        sb == Similarity(b.embedding, q)
    IN IF IsNaN(sa) THEN FALSE ELSE IF IsNaN(sb) THEN TRUE ELSE Greater(sa, sb)

\* The order of the TEXT primary keys.
IdRank(id) == CASE id = "c1" -> 1 [] id = "c2" -> 2 [] OTHER -> 3

\* An ORDER BY whose second key is id DESC.
OrderedBefore_IdDesc(a, b, q) ==
    \/ Closer(a, b, q)
    \/ ~Closer(b, a, q) /\ IdRank(a.id) > IdRank(b.id)

\* ORDER BY (embedding <=> q) ASC, id ASC
OrderedBefore(a, b, q) ==
    \/ Closer(a, b, q)
    \/ ~Closer(b, a, q) /\ IdRank(a.id) < IdRank(b.id)

\* metadata @> {key: value}
Contains(metadata, key, value) ==
    /\ key \in DOMAIN metadata
    /\ IF value.kind = "str"
       THEN metadata[key] = value
       ELSE metadata[key].kind = "list" /\ Range(value.v) \subseteq Range(metadata[key].v)

\* A WHERE clause that joins the filter predicates with OR.
Where_AnyFilter(row, q, filters, threshold) ==
    /\ \E key \in DOMAIN filters : Contains(row.metadata, key, filters[key])
    /\ AtLeast(Similarity(row.embedding, q), threshold)

\* The WHERE clause: every filter predicate and the threshold, ANDed.
Where(row, q, filters, threshold) ==
    /\ \A key \in DOMAIN filters : Contains(row.metadata, key, filters[key])
    /\ AtLeast(Similarity(row.embedding, q), threshold)

RECURSIVE OrderBy(_, _)
OrderBy(rows, q) ==
    IF rows = {} THEN << >>
    ELSE LET first == CHOOSE a \in rows : \A b \in rows \ {a} : OrderedBefore(a, b, q)
         IN <<first>> \o OrderBy(rows \ {first}, q)

\* A limit that lets one row too many through.
Limit_PlusOne(rows, top_k) ==
    SubSeq(rows, 1, IF top_k + 1 < Len(rows) THEN top_k + 1 ELSE Len(rows))

\* LIMIT top_k
Limit(rows, top_k) == SubSeq(rows, 1, IF top_k < Len(rows) THEN top_k ELSE Len(rows))

\* The rows fetched by the search statement.
SearchRows(chunks, q, top_k, filters, threshold) ==
    Limit(OrderBy({chunks[k] : k \in {i \in DOMAIN chunks :
                        Where(chunks[i], q, filters, threshold)}}, q), top_k)

\* RetrievalResult(chunk, score, rank): score is validated to lie in [0, 1].
ScoreValid(sim) == ~IsNaN(sim) /\ sim.num >= 0

RetrievalResult(row, q, rank) ==
    [chunk |-> row, score |-> Similarity(row.embedding, q), rank |-> rank]

\* A search that opens its cursor and sends the statement before it looks at
\* the length of the query embedding.
similarity_search_QueryFirst(s, query_embedding, top_k, filters, threshold) ==
    IF NotConnected(s) THEN Res(s, "RuntimeError")
    ELSE IF CursorFails(s) THEN Res(s, "OperationalError")
    ELSE IF s.txstatus = "inerror" THEN Res(s, "InFailedSqlTransaction")
    ELSE IF query_embedding.dim # EMBEDDING_DIM THEN Res(Abort(Begun(s)), "ValueError")
    ELSE LET q == Vector(query_embedding)
             rows == SearchRows(s.tx.chunks, q, top_k, filters, threshold)
         IN IF \E i \in DOMAIN rows : ~ScoreValid(Similarity(rows[i].embedding, q))
            THEN Res(Begun(s), "ValidationError")
            ELSE [Res(Begun(s), "ok") EXCEPT
                    !.results = [i \in DOMAIN rows |-> RetrievalResult(rows[i], q, i)]]

similarity_search(s, query_embedding, top_k, filters, threshold) ==
    IF NotConnected(s) THEN Res(s, "RuntimeError")
    ELSE IF query_embedding.dim # EMBEDDING_DIM THEN Res(s, "ValueError")
    ELSE IF CursorFails(s) THEN Res(s, "OperationalError")
    ELSE IF s.txstatus = "inerror" THEN Res(s, "InFailedSqlTransaction")
    ELSE LET q == Vector(query_embedding)
             rows == SearchRows(s.tx.chunks, q, top_k, filters, threshold)
         IN IF \E i \in DOMAIN rows : ~ScoreValid(Similarity(rows[i].embedding, q))
            THEN Res(Begun(s), "ValidationError")
            ELSE [Res(Begun(s), "ok") EXCEPT
                    !.results = [i \in DOMAIN rows |-> RetrievalResult(rows[i], q, i)]]

(***************************************************************************)
(* The schema manager.  A database is [extension, tables, indexes, data];  *)
(* a session is a psycopg connection as ensure_schema receives it: its     *)
(* transaction status, the committed database, and the database as its     *)
(* open transaction sees it (DDL is transactional in Postgres).            *)
(***************************************************************************)
AccessMethods == {"btree", "gin", "hnsw", "ivfflat"}

CreateExtension == [kind |-> "extension", name |-> "vector", using |-> "btree"]
DocumentsTable == [kind |-> "table", name |-> "documents", using |-> "btree"]
ChunksTable == [kind |-> "table", name |-> "chunks", using |-> "btree"]
HnswIndex == [kind |-> "index", name |-> "chunks_embedding_hnsw_idx", using |-> "hnsw"]
IvfflatIndex ==
    [kind |-> "index", name |-> "chunks_embedding_ivfflat_idx", using |-> "ivfflat"]
DocumentIdIndex == [kind |-> "index", name |-> "chunks_document_id_idx", using |-> "btree"]
MetadataIndex == [kind |-> "index", name |-> "chunks_metadata_idx", using |-> "gin"]
CreatedAtIndex == [kind |-> "index", name |-> "chunks_created_at_idx", using |-> "btree"]

EmptyDatabase ==
    [extension |-> FALSE, tables |-> {}, indexes |-> {}, data |-> EmptyTables]

\* A table definition that replaces the table that is there.
CreateTable_Replace(d, name) ==
    [d EXCEPT !.tables = @ \cup {name}, !.data[name] = << >>]

\* CREATE TABLE IF NOT EXISTS: an existing table is left as it is.
CreateTable(d, name) ==
    IF name \in d.tables THEN d
    ELSE [d EXCEPT !.tables = @ \cup {name}, !.data[name] = << >>]

\* CREATE INDEX IF NOT EXISTS
CreateIndex(d, name) ==
    IF name \in d.indexes THEN d ELSE [d EXCEPT !.indexes = @ \cup {name}]

\* What a statement of ensure_schema does to the database.
Apply(d, stmt) ==
    CASE stmt.kind = "extension" -> [d EXCEPT !.extension = TRUE]
      [] stmt.kind = "table" -> CreateTable(d, stmt.name)
      [] OTHER -> CreateIndex(d, stmt.name)

\* cur.execute(stmt) on session k of a server offering the access methods
\* available.  A server that has no such access method rejects the index
\* definition, and the rejected statement aborts the transaction: until a
\* rollback every further statement is refused.
Execute(k, stmt, available) ==
    IF k.txstatus = "inerror" THEN [k |-> k, outcome |-> "InFailedSqlTransaction"]
    ELSE IF stmt.kind = "index" /\ stmt.using \notin available
    THEN [k |-> [k EXCEPT !.txstatus = "inerror", !.pending = k.committed],
          outcome |-> "UndefinedObject"]
    ELSE [k |-> [k EXCEPT !.txstatus = "intrans", !.pending = Apply(@, stmt)],
          outcome |-> "ok"]

\* Statements run one after the other; the first failure is raised.
RECURSIVE ExecuteAll(_, _, _)
ExecuteAll(k, stmts, available) ==
    IF stmts = << >> THEN [k |-> k, outcome |-> "ok"]
    ELSE LET r == Execute(k, Head(stmts), available)
         IN IF r.outcome = "ok" THEN ExecuteAll(r.k, Tail(stmts), available) ELSE r

\* conn.commit()
SchemaCommit(k) == [k EXCEPT !.committed = k.pending, !.txstatus = "idle"]

\* ensure_schema(conn): the extension and the tables, the HNSW index inside
\* `try`, the IVFFlat index inside `except psycopg.Error` on the same cursor,
\* the three other indexes, and the commit.
ensure_schema(k, available) ==
    LET a == ExecuteAll(k, <<CreateExtension, DocumentsTable, ChunksTable>>, available)
    IN IF a.outcome # "ok" THEN a
       ELSE LET h == Execute(a.k, HnswIndex, available)
                b == IF h.outcome = "ok" THEN h ELSE Execute(h.k, IvfflatIndex, available)
            IN IF b.outcome # "ok" THEN b
               ELSE LET c == ExecuteAll(b.k, <<DocumentIdIndex, MetadataIndex,
                                               CreatedAtIndex>>, available)
                    IN IF c.outcome # "ok" THEN c
                       ELSE [k |-> SchemaCommit(c.k), outcome |-> "ok"]

\* DROP TABLE IF EXISTS chunks CASCADE; DROP TABLE IF EXISTS documents CASCADE
DropTables(d) == [d EXCEPT !.tables = {}, !.indexes = {}, !.data = EmptyTables]

\* drop_schema(conn)
drop_schema(k) ==
    IF k.txstatus = "inerror" THEN [k |-> k, outcome |-> "InFailedSqlTransaction"]
    ELSE [k |-> SchemaCommit([k EXCEPT !.pending = DropTables(@)]), outcome |-> "ok"]

\* psycopg.connect(dsn): a new session on database d.
Session(d) == [txstatus |-> "idle", committed |-> d, pending |-> d]

Database ==
    [extension |-> catalog.extension, tables |-> catalog.tables,
     indexes |-> catalog.indexes, data |-> db]

CatalogOf(d) == [extension |-> d.extension, tables |-> d.tables, indexes |-> d.indexes]

(***************************************************************************)
(* Arguments of the calls.                                                 *)
(***************************************************************************)
Batches == UNION {[1..n -> BatchChunks] : n \in 0..MaxBatch}

Queries ==
    {Emb(2, 0), Emb(-2, 0), Emb(0, 0), [dim |-> EMBEDDING_DIM - 1, x |-> 2, y |-> 0]}

TopKs == 1..MaxTopK

Filters == {EmptyMeta,
            "category" :> Str("A"),
            ("category" :> Str("A")) @@ ("tags" :> List(<<"x">>))}

Thresholds == {[n |-> 0, d |-> 1], [n |-> 1, d |-> 2]}

NoCall ==
    [op |-> "new", pre |-> "none", outcome |-> "ok", id |-> "",
     doc |-> << >>, chunks |-> << >>, found |-> FALSE, row |-> << >>,
     query |-> Emb(0, 0), top_k |-> 0, filters |-> EmptyMeta,
     threshold |-> [n |-> 0, d |-> 1], results |-> << >>,
     embedding |-> Emb(0, 0), opened |-> FALSE]

\* The store and the record of the call after a call that ended as r.
StoreReturns(r, call) ==
    /\ conn' = r.s.conn
    /\ txstatus' = r.s.txstatus
    /\ db' = r.s.db
    /\ tx' = r.s.tx
    /\ last' = [call EXCEPT !.pre = conn, !.outcome = r.outcome, !.found = r.found,
                            !.row = r.row, !.results = r.results,
                            !.opened = r.opened]
    /\ UNCHANGED <<engine, catalog, ddl, strategy, objs, results, rr, utilVars>>

\* A call that neither enters nor leaves a `with` block.
Returns(r, call) == StoreReturns(r, call) /\ UNCHANGED block

(***************************************************************************)
(* The store starts unconnected (__init__) over the empty schema.          *)
(***************************************************************************)
\* No wrapped function is being called, no grader and no filter builder has
\* been called.
NoRetry ==
    [pc |-> "idle", max_retries |-> 0, initial_delay |-> 0, backoff_factor |-> 0,
     exceptions |-> {}, func |-> [first_ok |-> 0, exc |-> "ValueError"],
     attempt |-> 0, delay |-> 0, calls |-> 0, sleeps |-> << >>,
     result |-> [kind |-> "none", value |-> "", call |-> 0]]

\* A grader with the default threshold and minimum length, not called.  An
\* optional threshold is a sequence of at most one element.
NoGrade ==
    [op |-> "new", method |-> "none",
     threshold |-> [n |-> 3, d |-> 10], min_substring_length |-> 10,
     query |-> << >>, text |-> << >>, results |-> << >>, override |-> << >>,
     answer |-> << >>, context |-> << >>,
     grade |-> [passed |-> FALSE, score |-> [n |-> 0, d |-> 1]],
     filtered |-> << >>]

\* build_filters not called: every argument at its default, None.  An
\* optional argument is a sequence of at most one element.
NoBuild ==
    [op |-> "new", category |-> << >>, source |-> << >>, sources |-> << >>,
     tags |-> << >>, user_id |-> << >>, filters |-> << >>, warnings |-> 0,
     infos |-> 0]

NoUtils ==
    /\ rt = NoRetry
    /\ gd = NoGrade
    /\ bf = NoBuild

\* No reranker has been made.
NoRerank ==
    [calls |-> 0, input |-> << >>, output |-> << >>, same |-> TRUE, factors |-> << >>]

NoReranker ==
    /\ strategy = "none"
    /\ objs = << >>
    /\ results = << >>
    /\ rr = NoRerank

\* The record of a schema manager call: how it ended, the transaction status
\* it left on its session, whether ensure_schema has succeeded on the
\* database as it is now (ensured) and had when the call was made (again);
\* tick alternates from one call to the next.
NoDDL ==
    [op |-> "new", outcome |-> "ok", txstatus |-> "idle", ensured |-> FALSE,
     again |-> FALSE, tick |-> FALSE]

\* The schema that ensure_schema sets up on an empty database before the
\* store is used.
Ensured == ensure_schema(Session(EmptyDatabase), AccessMethods).k.committed

Init ==
    /\ conn = "none"
    /\ txstatus = "idle"
    /\ db = EmptyTables
    /\ tx = EmptyTables
    /\ last = NoCall
    /\ engine = AccessMethods
    /\ catalog = CatalogOf(Ensured)
    /\ ddl = [NoDDL EXCEPT !.op = "ensure_schema", !.ensured = TRUE]
    /\ block = "out"
    /\ NoReranker
    /\ NoUtils

Connect == Returns(connect(Store), [NoCall EXCEPT !.op = "connect"])

Close == Returns(close(Store), [NoCall EXCEPT !.op = "close"])

UpsertDocument ==
    \E doc \in Documents :
        Returns(upsert_document(Store, doc),
                [NoCall EXCEPT !.op = "upsert_document", !.id = doc.id, !.doc = <<doc>>])

GetDocument ==
    \E id \in DocIds :
        Returns(get_document(Store, id), [NoCall EXCEPT !.op = "get_document", !.id = id])

DeleteDocument ==
    \E id \in DocIds :
        Returns(delete_document(Store, id),
                [NoCall EXCEPT !.op = "delete_document", !.id = id])

UpsertChunk ==
    \E chunk \in Chunks :
        Returns(upsert_chunk(Store, chunk),
                [NoCall EXCEPT !.op = "upsert_chunk", !.id = chunk.id, !.chunks = <<chunk>>])

UpsertChunksBatch ==
    \E chunks \in Batches :
        Returns(upsert_chunks_batch(Store, chunks),
                [NoCall EXCEPT !.op = "upsert_chunks_batch", !.chunks = chunks])

GetChunk ==
    \E id \in ChunkIds :
        Returns(get_chunk(Store, id), [NoCall EXCEPT !.op = "get_chunk", !.id = id])

\* A caller constructs a Chunk; the store is not involved.
ConstructChunk ==
    \E embedding \in Embeddings :
        LET c == NewChunk("c1", "d1", 1, embedding)
        IN /\ last' = [NoCall EXCEPT !.op = "Chunk", !.pre = conn, !.id = "c1",
                                     !.outcome = c.outcome, !.chunks = c.chunk,
                                     !.embedding = embedding]
           /\ UNCHANGED <<conn, txstatus, db, tx, engine, catalog, ddl, block>>
           /\ UNCHANGED <<strategy, objs, results, rr, utilVars>>

SimilaritySearch ==
    \E q \in Queries, k \in TopKs, f \in Filters, t \in Thresholds :
        Returns(similarity_search(Store, q, k, f, t),
                [NoCall EXCEPT !.op = "similarity_search", !.query = q, !.top_k = k,
                               !.filters = f, !.threshold = t])

Next ==
    \/ Connect
    \/ Close
    \/ UpsertDocument
    \/ GetDocument
    \/ DeleteDocument
    \/ UpsertChunk
    \/ UpsertChunksBatch
    \/ GetChunk
    \/ ConstructChunk
    \/ SimilaritySearch

Spec == Init /\ [][Next]_vars

(***************************************************************************)
(* The store as a context manager.  The body of the block calls the store  *)
(* or raises an exception of its own; once a statement of the body has     *)
(* raised, the block is left.  Outside a block connect and close are       *)
(* called directly.                                                        *)
(***************************************************************************)
WithEnter ==
    /\ block = "out"
    /\ LET r == __enter__(Store)
       IN /\ StoreReturns(r, [NoCall EXCEPT !.op = "__enter__"])
          /\ block' = IF r.outcome = "ok" THEN "in" ELSE "out"

WithExit ==
    /\ block = "in"
    /\ StoreReturns(__exit__(Store, last.outcome), [NoCall EXCEPT !.op = "__exit__"])
    /\ block' = "out"

BodyRaises == Returns(Res(Store, "Exception"), [NoCall EXCEPT !.op = "raise"])

InBody == block = "in" /\ last.outcome = "ok"

NextWith ==
    \/ WithEnter
    \/ WithExit
    \/ InBody /\ BodyRaises
    \/ InBody /\ UpsertDocument
    \/ InBody /\ UpsertChunk
    \/ InBody /\ GetChunk
    \/ InBody /\ Close
    \/ block = "out" /\ Connect
    \/ block = "out" /\ Close

SpecWith == Init /\ [][NextWith]_vars

(***************************************************************************)
(* The schema manager on a database that starts empty, on a server with or *)
(* without the HNSW access method.  Each call gets a new session, as the   *)
(* pg_conn fixture gives it; a call waits while the store's connection has *)
(* a transaction open on the tables.  The store is used while the tables   *)
(* exist.                                                                  *)
(***************************************************************************)
SchemaReturns(r, op) ==
    /\ catalog' = CatalogOf(r.k.committed)
    /\ db' = r.k.committed.data
    /\ tx' = IF r.k.committed.data = db THEN tx ELSE r.k.committed.data
    /\ ddl' = [op |-> op, outcome |-> r.outcome, txstatus |-> r.k.txstatus,
               ensured |-> IF op = "drop_schema" THEN FALSE
                           ELSE ddl.ensured \/ r.outcome = "ok",
               again |-> ddl.ensured, tick |-> ~ddl.tick]
    /\ UNCHANGED <<conn, txstatus, last, engine, block, strategy, objs, results, rr>>
    /\ UNCHANGED utilVars

EnsureSchema ==
    /\ txstatus = "idle"
    /\ SchemaReturns(ensure_schema(Session(Database), engine), "ensure_schema")

DropSchema ==
    /\ txstatus = "idle"
    /\ SchemaReturns(drop_schema(Session(Database)), "drop_schema")

TablesExist == {"documents", "chunks"} \subseteq catalog.tables

InitSchema ==
    /\ conn = "none"
    /\ txstatus = "idle"
    /\ db = EmptyTables
    /\ tx = EmptyTables
    /\ last = NoCall
    /\ engine \in {AccessMethods, AccessMethods \ {"hnsw"}}
    /\ catalog = CatalogOf(EmptyDatabase)
    /\ ddl = NoDDL
    /\ block = "out"
    /\ NoReranker
    /\ NoUtils

NextSchema ==
    \/ EnsureSchema
    \/ DropSchema
    \/ TablesExist /\ Connect
    \/ TablesExist /\ Close
    \/ TablesExist /\ UpsertDocument
    \/ TablesExist /\ UpsertChunk
    \/ TablesExist /\ GetChunk

SpecSchema == InitSchema /\ [][NextSchema]_vars

(***************************************************************************)
(* The reranker.  A score is the rational num / den with den > 0.  A list  *)
(* of results is a sequence of references to RetrievalResult objects, the  *)
(* objects being records [created_at, score, rank] in a heap: rerank       *)
(* assigns to the objects it is given.                                     *)
(***************************************************************************)
Product(a, b) == [num |-> a.num * b.num, den |-> a.den * b.den]

ScoreGreater(a, b) == a.num * b.den > b.num * a.den

\* sorted(..., reverse=True) and list.sort(reverse=True): descending, and
\* elements with equal keys keep the order they had.  gt is the set of the
\* pairs <<a, b>> of elements such that the key of a is greater than that of
\* b.
SortDescending(list, gt) ==
    LET Place(i) ==
            1 + Cardinality({j \in DOMAIN list : <<list[j], list[i]>> \in gt})
              + Cardinality({j \in 1..(i - 1) :
                                /\ <<list[j], list[i]>> \notin gt
                                /\ <<list[i], list[j]>> \notin gt})
    IN [p \in DOMAIN list |-> list[CHOOSE i \in DOMAIN list : Place(i) = p]]

\* sorted(results, key=lambda r: r.chunk.created_at, reverse=True)
NewestFirst(list, heap) ==
    SortDescending(list, {pair \in Range(list) \X Range(list) :
                             heap[pair[1]].created_at > heap[pair[2]].created_at})

\* recency_factor = 1.0 - (i / n) * 0.1, for position i = 0 .. n - 1.
recency_factor(i, n) == [num |-> 10 * n - i, den |-> 10 * n]

\* for i, result in enumerate(sorted_results): result.score *= recency_factor
ApplyBoost(list, heap) ==
    [o \in DOMAIN heap |->
        IF \E p \in DOMAIN list : list[p] = o
        THEN LET p == CHOOSE q \in DOMAIN list : list[q] = o
             IN [heap[o] EXCEPT !.score = Product(@, recency_factor(p - 1, Len(list)))]
        ELSE heap[o]]

\* A re-sort that leaves the list in creation order.
SortByScore_Skip(list, heap) == list

\* sorted_results.sort(key=lambda r: r.score, reverse=True)
SortByScore(list, heap) ==
    SortDescending(list, {pair \in Range(list) \X Range(list) :
                             ScoreGreater(heap[pair[1]].score, heap[pair[2]].score)})

\* for rank, result in enumerate(sorted_results, start=1): result.rank = rank
UpdateRanks(list, heap) ==
    [o \in DOMAIN heap |->
        IF \E p \in DOMAIN list : list[p] = o
        THEN [heap[o] EXCEPT !.rank = CHOOSE p \in DOMAIN list : list[p] = o]
        ELSE heap[o]]

\* What rerank returns: the list, whether it is the list object it was given,
\* the heap as the call leaves it, and the multipliers it applied, newest
\* first.
Reranked(list, same, heap, factors) ==
    [list |-> list, same |-> same, heap |-> heap, factors |-> factors]

_rerank_by_recency(list, heap) ==
    IF list = << >> THEN Reranked(list, TRUE, heap, << >>)
    ELSE LET sorted_results == NewestFirst(list, heap)
             n == Len(sorted_results)
             boosted == ApplyBoost(sorted_results, heap)
             resorted == SortByScore(sorted_results, boosted)
         IN Reranked(resorted, FALSE, UpdateRanks(resorted, boosted),
                     [p \in 1..n |-> recency_factor(p - 1, n)])

\* A rerank that takes every strategy but "none" for "recency".
rerank_RecencyByDefault(s, list, heap) ==
    IF s = "none" \/ list = << >> THEN Reranked(list, TRUE, heap, << >>)
    ELSE _rerank_by_recency(list, heap)

rerank(s, list, heap) ==
    IF s = "none" \/ list = << >> THEN Reranked(list, TRUE, heap, << >>)
    ELSE IF s = "recency" THEN _rerank_by_recency(list, heap)
    ELSE Reranked(list, TRUE, heap, << >>)

\* Reranker(strategy): the strategies of the docstring; "metadata" is not
\* implemented.
Strategies == {"none", "recency", "metadata"}

\* The results handed to a reranker, as a search returns them: scores in
\* [0, 1] (in tenths), creation times, ranks 1..N or, after the first result
\* of a longer list has been dropped, 2..N+1.
Scores == {[num |-> 0, den |-> 10], [num |-> 9, den |-> 10], [num |-> 10, den |-> 10]}

CreationTimes == 1..3

ResultLists ==
    UNION {[1..n -> [created_at : CreationTimes, score : Scores, rank : {0}]] :
              n \in 0..MaxResults}

InitRerank ==
    /\ conn = "none"
    /\ txstatus = "idle"
    /\ db = EmptyTables
    /\ tx = EmptyTables
    /\ last = NoCall
    /\ engine = AccessMethods
    /\ catalog = CatalogOf(Ensured)
    /\ ddl = [NoDDL EXCEPT !.op = "ensure_schema", !.ensured = TRUE]
    /\ block = "out"
    /\ strategy \in Strategies
    /\ \E list \in ResultLists, first \in 1..2 :
          /\ objs = [o \in DOMAIN list |-> [list[o] EXCEPT !.rank = o + first - 1]]
          /\ results = [o \in DOMAIN list |-> o]
    /\ rr = NoRerank
    /\ NoUtils

\* results = reranker.rerank(results)
Rerank ==
    /\ rr.calls < MaxReranks
    /\ LET r == rerank(strategy, results, objs)
       IN /\ objs' = r.heap
          /\ results' = r.list
          /\ rr' = [calls |-> rr.calls + 1, input |-> results, output |-> r.list,
                    same |-> r.same, factors |-> r.factors]
    /\ UNCHANGED <<conn, txstatus, db, tx, last, engine, catalog, ddl, block, strategy>>
    /\ UNCHANGED utilVars

NextRerank == Rerank

SpecRerank == InitRerank /\ [][NextRerank]_vars

(***************************************************************************)
(* retry_with_backoff.  The wrapped function is [first_ok, exc]: its calls *)
(* raise exc until call number first_ok, which returns "success", as do    *)
(* the calls after it; first_ok = 0 is a function that raises every time.  *)
(* Delays are whole numbers of a time unit.  The result of the wrapper is  *)
(* [kind, value, call]: what it returned or raised and the call of the     *)
(* function that value came from (0 for an error of the wrapper's own).    *)
(***************************************************************************)
MaxRetries == 3

\* func(*args, **kwargs), for the n-th time.
func(f, n) == IF f.first_ok # 0 /\ n >= f.first_ok THEN "success" ELSE f.exc

\* An exit test that gives up one attempt early.
IsLastAttempt_Early(r) == r.attempt >= r.max_retries - 1

\* if attempt == max_retries
IsLastAttempt(r) == r.attempt = r.max_retries

\* A backoff that keeps the delay as it is.
NextDelay_Constant(r) == r.delay

\* delay *= backoff_factor
NextDelay(r) == r.delay * r.backoff_factor

\* wrapper(*args, **kwargs) is entered: delay = initial_delay, and the loop
\* starts with attempt = 1.
wrapper_enter(r) == [r EXCEPT !.pc = "loop", !.delay = r.initial_delay, !.attempt = 1]

\* for attempt in range(1, max_retries + 1): the range has run out, and the
\* statement after the loop raises RuntimeError("Retry logic error").
wrapper_exhausted(r) ==
    [r EXCEPT !.pc = "raised",
              !.result = [kind |-> "raise", value |-> "RuntimeError", call |-> 0]]

\* try: return func(...)  except exceptions: the last attempt re-raises, an
\* earlier one goes on to sleep; an exception that is not listed leaves the
\* wrapper at once.
wrapper_attempt(r) ==
    LET n == r.calls + 1
        out == func(r.func, n)
        called == [r EXCEPT !.calls = n]
    IN IF out = "success"
       THEN [called EXCEPT !.pc = "returned",
                           !.result = [kind |-> "return", value |-> out, call |-> n]]
       ELSE IF out \notin r.exceptions \/ IsLastAttempt(r)
       THEN [called EXCEPT !.pc = "raised",
                           !.result = [kind |-> "raise", value |-> out, call |-> n]]
       ELSE [called EXCEPT !.pc = "sleep"]

\* time.sleep(delay); delay *= backoff_factor; and the loop goes on.
wrapper_sleep(r) ==
    [r EXCEPT !.sleeps = Append(@, r.delay), !.delay = NextDelay(r),
              !.attempt = @ + 1, !.pc = "loop"]

InitRetry ==
    /\ conn = "none"
    /\ txstatus = "idle"
    /\ db = EmptyTables
    /\ tx = EmptyTables
    /\ last = NoCall
    /\ engine = AccessMethods
    /\ catalog = CatalogOf(Ensured)
    /\ ddl = [NoDDL EXCEPT !.op = "ensure_schema", !.ensured = TRUE]
    /\ block = "out"
    /\ NoReranker
    /\ gd = NoGrade
    /\ bf = NoBuild
    /\ \E m \in 0..MaxRetries, d \in 1..2, b \in 1..2,
          a \in {{"ValueError"}, {"ValueError", "KeyError"}},
          k \in 0..(MaxRetries + 1), e \in {"ValueError", "KeyError"} :
            rt = [NoRetry EXCEPT !.pc = "ready", !.max_retries = m,
                                 !.initial_delay = d, !.backoff_factor = b,
                                 !.exceptions = a,
                                 !.func = [first_ok |-> k, exc |-> e]]

RetryStep(r) ==
    /\ rt' = r
    /\ UNCHANGED <<conn, txstatus, db, tx, last, engine, catalog, ddl, block>>
    /\ UNCHANGED <<strategy, objs, results, rr, gd, bf>>

WrapperEnter == rt.pc = "ready" /\ RetryStep(wrapper_enter(rt))

WrapperExhausted ==
    /\ rt.pc = "loop"
    /\ rt.attempt > rt.max_retries
    /\ RetryStep(wrapper_exhausted(rt))

WrapperAttempt ==
    /\ rt.pc = "loop"
    /\ rt.attempt <= rt.max_retries
    /\ RetryStep(wrapper_attempt(rt))

WrapperSleep == rt.pc = "sleep" /\ RetryStep(wrapper_sleep(rt))

NextRetry ==
    \/ WrapperEnter
    \/ WrapperExhausted
    \/ WrapperAttempt
    \/ WrapperSleep

SpecRetry == InitRetry /\ [][NextRetry]_vars

(***************************************************************************)
(* The graders.  A string is a sequence of characters; the characters are  *)
(* the letters a and b, the upper-case A, the space and the period.  A     *)
(* score or a threshold is the rational n / d with d > 0.                  *)
(***************************************************************************)
MaxChars == 3
MaxGraded == 2
MaxUnits == 2

RECURSIVE StringsOver(_, _)
StringsOver(alphabet, n) ==
    IF n = 0 THEN {<< >>}
    ELSE LET shorter == StringsOver(alphabet, n - 1)
         IN shorter \cup {Append(s, c) : s \in {t \in shorter : Len(t) = n - 1},
                                         c \in alphabet}

\* str.lower()
lower(s) == [i \in DOMAIN s |-> IF s[i] = "A" THEN "a" ELSE s[i]]

\* str.split(): the maximal runs of characters that are not whitespace.
RECURSIVE SplitWords(_, _)
SplitWords(s, word) ==
    IF s = << >> THEN (IF word = << >> THEN << >> ELSE <<word>>)
    ELSE IF Head(s) = " "
    THEN (IF word = << >> THEN << >> ELSE <<word>>) \o SplitWords(Tail(s), << >>)
    ELSE SplitWords(Tail(s), Append(word, Head(s)))

split(s) == SplitWords(s, << >>)

\* GradingResult(passed=..., score=...)
GradingResult(passed, score) == [passed |-> passed, score |-> score]

\* score >= threshold, for two rationals.
ScoreAtLeast(score, threshold) == score.n * threshold.d >= threshold.n * score.d

\* A score that divides by the number of words of the text.
relevance_score_OverText(query, text) ==
    LET query_words == Range(split(lower(query)))
        text_words == Range(split(lower(text)))
    IN IF text_words # {}
       THEN [n |-> Cardinality(query_words \cap text_words),
             d |-> Cardinality(text_words)]
       ELSE [n |-> 0, d |-> 1]

\* score = len(overlap) / len(query_words) if query_words else 0.0
relevance_score(query, text) ==
    LET query_words == Range(split(lower(query)))
        text_words == Range(split(lower(text)))
    IN IF query_words # {}
       THEN [n |-> Cardinality(query_words \cap text_words),
             d |-> Cardinality(query_words)]
       ELSE [n |-> 0, d |-> 1]

\* DeterministicRelevanceGrader(threshold).grade(query, text)
relevance_grade(threshold, query, text) ==
    LET score == relevance_score(query, text)
    IN GradingResult(ScoreAtLeast(score, threshold), score)

\* A RetrievalResult as the graders read it: r.chunk.text, with the rank
\* that tells the objects of one list apart.
GradedResult(rank, text) == [rank |-> rank, text |-> text]

\* grade_batch(query, results)
grade_batch(threshold, query, list) ==
    [i \in DOMAIN list |-> relevance_grade(threshold, query, list[i].text)]

RECURSIVE Keep(_, _, _)
Keep(list, grades, thresh) ==
    IF list = << >> THEN << >>
    ELSE LET rest == Keep(Tail(list), Tail(grades), thresh)
         IN IF Head(grades).passed /\ ScoreAtLeast(Head(grades).score, thresh)
            THEN <<Head(list)>> \o rest
            ELSE rest

\* filter_relevant(query, results, threshold=None)
filter_relevant(threshold, query, list, override) ==
    LET thresh == IF override # << >> THEN override[1] ELSE threshold
    IN Keep(list, grade_batch(threshold, query, list), thresh)

\* sep.join(parts)
RECURSIVE Join(_, _)
Join(parts, sep) ==
    IF parts = << >> THEN << >>
    ELSE IF Len(parts) = 1 THEN Head(parts)
    ELSE Head(parts) \o sep \o Join(Tail(parts), sep)

\* str.split("."): the pieces between the periods, the empty ones kept.
RECURSIVE SplitPeriods(_, _)
SplitPeriods(s, piece) ==
    IF s = << >> THEN <<piece>>
    ELSE IF Head(s) = "." THEN <<piece>> \o SplitPeriods(Tail(s), << >>)
    ELSE SplitPeriods(Tail(s), Append(piece, Head(s)))

\* str.strip()
RECURSIVE lstrip(_)
lstrip(s) == IF s # << >> /\ Head(s) = " " THEN lstrip(Tail(s)) ELSE s

RECURSIVE rstrip(_)
rstrip(s) ==
    IF s # << >> /\ s[Len(s)] = " " THEN rstrip(SubSeq(s, 1, Len(s) - 1)) ELSE s

strip(s) == rstrip(lstrip(s))

\* needle in haystack
IsSubstring(needle, haystack) ==
    \E i \in 1..(Len(haystack) - Len(needle) + 1) :
        SubSeq(haystack, i, i + Len(needle) - 1) = needle

\* A filter that keeps a unit as long as the minimum length.
Qualifies_AtLeast(unit, min_substring_length) ==
    Len(strip(unit)) >= min_substring_length

\* len(s.strip()) > self.min_substring_length
Qualifies(unit, min_substring_length) ==
    Len(strip(unit)) > min_substring_length

\* sentences = [s.strip() for s in answer.split(".") if ...]
Sentences(answer, min_substring_length) ==
    LET units == SplitPeriods(answer, << >>)
        kept == SelectSeq(units, LAMBDA u : Qualifies(u, min_substring_length))
    IN [i \in DOMAIN kept |-> strip(kept[i])]

\* The trigram loop of one sentence.
Grounded(sentence, context_text) ==
    LET words == split(lower(sentence))
    IN /\ Len(words) >= 3
       /\ \E i \in 1..(Len(words) - 2) :
              IsSubstring(Join(SubSeq(words, i, i + 2), <<" ">>),
                          lower(context_text))

\* DeterministicGroundednessGrader(min_substring_length).grade(answer, context)
groundedness_grade(min_substring_length, answer, context) ==
    LET context_text == Join([i \in DOMAIN context |-> context[i].text], <<" ">>)
        sentences == Sentences(answer, min_substring_length)
        matched == Cardinality({i \in DOMAIN sentences :
                                    Grounded(sentences[i], context_text)})
        score == [n |-> matched, d |-> Len(sentences)]
    IN IF sentences = << >>
       THEN GradingResult(TRUE, [n |-> 1, d |-> 1])
       ELSE GradingResult(ScoreAtLeast(score, [n |-> 1, d |-> 2]), score)

RECURSIVE ListsOf(_, _)
ListsOf(pool, n) ==
    IF n = 0 THEN {<< >>}
    ELSE LET shorter == ListsOf(pool, n - 1)
         IN shorter \cup {Append(l, x) : l \in {m \in shorter : Len(m) = n - 1},
                                         x \in pool}

ResultsOf(texts) == [i \in DOMAIN texts |-> GradedResult(i, texts[i])]

\* A grader is constructed and the arguments of one call of one of its
\* methods are chosen.
InitGrade ==
    LET thresholds == {[n |-> 3, d |-> 10], [n |-> 1, d |-> 2], [n |-> 3, d |-> 4]}
        queries == StringsOver({"a", "A", "b", " "}, MaxChars)
        texts == {<< >>, <<"a">>, <<"A", " ", "b">>, <<"a", "b">>}
        lists == {ResultsOf(l) : l \in ListsOf(texts, MaxGraded)}
        min_lengths == {0, 4, 10}
        units == {<< >>, <<" ", "a", " ">>, <<"a", " ", "b", " ", "A">>,
                  <<"b", " ", "b", " ", "a">>, <<"a", "b", "a", "b">>,
                  <<"a", " ", "b", " ", "a", " ", "b", " ", "a", " ", "b">>}
        answers == {Join(l, <<".">>) : l \in ListsOf(units, MaxUnits) \ {<< >>}}
        context_texts == {<<"a", " ", "b">>, <<"A">>, <<"b", " ", "b", " ", "a">>}
        contexts == {ResultsOf(l) : l \in ListsOf(context_texts, MaxGraded)}
        grade_calls ==
            {[NoGrade EXCEPT !.method = "grade", !.threshold = t, !.query = q,
                             !.text = x] :
                t \in thresholds, q \in queries, x \in texts}
        filter_calls ==
            {[NoGrade EXCEPT !.method = "filter_relevant", !.threshold = t,
                             !.query = q, !.results = l, !.override = o] :
                t \in thresholds, q \in queries, l \in lists,
                o \in {<< >>} \cup {<<u>> : u \in thresholds}}
        groundedness_calls ==
            {[NoGrade EXCEPT !.method = "groundedness",
                             !.min_substring_length = m, !.answer = a,
                             !.context = c] :
                m \in min_lengths, a \in answers, c \in contexts}
    IN /\ conn = "none"
       /\ txstatus = "idle"
       /\ db = EmptyTables
       /\ tx = EmptyTables
       /\ last = NoCall
       /\ engine = AccessMethods
       /\ catalog = CatalogOf(Ensured)
       /\ ddl = [NoDDL EXCEPT !.op = "ensure_schema", !.ensured = TRUE]
       /\ block = "out"
       /\ NoReranker
       /\ rt = NoRetry
       /\ bf = NoBuild
       /\ gd \in grade_calls \cup filter_calls \cup groundedness_calls

GradeReturns(g) ==
    /\ gd' = g
    /\ UNCHANGED <<conn, txstatus, db, tx, last, engine, catalog, ddl, block>>
    /\ UNCHANGED <<strategy, objs, results, rr, rt, bf>>

Grade ==
    /\ gd.op = "new"
    /\ gd.method = "grade"
    /\ GradeReturns([gd EXCEPT
           !.op = "grade",
           !.grade = relevance_grade(gd.threshold, gd.query, gd.text)])

FilterRelevant ==
    /\ gd.op = "new"
    /\ gd.method = "filter_relevant"
    /\ GradeReturns([gd EXCEPT
           !.op = "filter_relevant",
           !.filtered = filter_relevant(gd.threshold, gd.query, gd.results,
                                        gd.override)])

GradeGroundedness ==
    /\ gd.op = "new"
    /\ gd.method = "groundedness"
    /\ GradeReturns([gd EXCEPT
           !.op = "groundedness",
           !.grade = groundedness_grade(gd.min_substring_length, gd.answer,
                                        gd.context)])

NextGrade ==
    \/ Grade
    \/ FilterRelevant
    \/ GradeGroundedness

SpecGrade == InitGrade /\ [][NextGrade]_vars

(***************************************************************************)
(* MetadataFilter.build_filters.  The returned dict is a function from its *)
(* keys to their values.                                                   *)
(***************************************************************************)
MaxItems == 2

\* if value: for an optional string.
TruthyStr(opt) == opt # << >> /\ opt[1] # ""

\* if value: for an optional list.
TruthyList(opt) == opt # << >> /\ opt[1] # << >>

\* filters[key] = value
SetItem(filters, key, value) == (key :> value) @@ filters

\* The last element in the place of the first.
FirstSource_Last(sources) == sources[Len(sources)]

\* sources[0]
FirstSource(sources) == sources[1]

\* build_filters(category, source, sources, tags, user_id)
build_filters(b) ==
    LET f0 == << >>
        f1 == IF TruthyStr(b.category)
              THEN SetItem(f0, "category", b.category[1])
              ELSE f0
        f2 == IF TruthyStr(b.source)
              THEN SetItem(f1, "source", b.source[1])
              ELSE IF TruthyList(b.sources)
              THEN SetItem(f1, "source", FirstSource(b.sources[1]))
              ELSE f1
        f3 == IF TruthyList(b.tags)
              THEN SetItem(f2, "tags", b.tags[1])
              ELSE f2
    IN [b EXCEPT
           !.op = "build_filters",
           !.filters = f3,
           !.warnings = IF /\ ~TruthyStr(b.source)
                           /\ TruthyList(b.sources)
                           /\ Len(b.sources[1]) > 1
                        THEN 1 ELSE 0,
           !.infos = IF TruthyStr(b.user_id) THEN 1 ELSE 0]

\* An optional argument: None or one of the values.
Optional(values) == {<< >>} \cup {<<v>> : v \in values}

\* The arguments of one call of build_filters are chosen.
InitFilters ==
    /\ conn = "none"
    /\ txstatus = "idle"
    /\ db = EmptyTables
    /\ tx = EmptyTables
    /\ last = NoCall
    /\ engine = AccessMethods
    /\ catalog = CatalogOf(Ensured)
    /\ ddl = [NoDDL EXCEPT !.op = "ensure_schema", !.ensured = TRUE]
    /\ block = "out"
    /\ NoReranker
    /\ rt = NoRetry
    /\ gd = NoGrade
    /\ \E c \in Optional({"", "technical"}), s \in Optional({"", "manual.pdf"}),
          l \in Optional(ListsOf({"", "a.pdf", "b.pdf"}, MaxItems)),
          t \in Optional(ListsOf({"x", "y"}, MaxItems)),
          u \in Optional({"", "u1"}) :
            bf = [NoBuild EXCEPT !.category = c, !.source = s, !.sources = l,
                                 !.tags = t, !.user_id = u]

BuildFilters ==
    /\ bf.op = "new"
    /\ bf' = build_filters(bf)
    /\ UNCHANGED <<conn, txstatus, db, tx, last, engine, catalog, ddl, block>>
    /\ UNCHANGED <<strategy, objs, results, rr, rt, gd>>

NextFilters == BuildFilters

SpecFilters == InitFilters /\ [][NextFilters]_vars

(***************************************************************************)
(* Properties.                                                             *)
(***************************************************************************)
StoreOps == {"upsert_document", "get_document", "delete_document", "upsert_chunk",
             "upsert_chunks_batch", "get_chunk", "similarity_search"}

Returned(op) == last.op = op /\ last.outcome = "ok"

\* The chunk ids that document doc_id owns in a pair of tables.
OwnedBy(data, doc_id) == {k \in DOMAIN data.chunks : data.chunks[k].document_id = doc_id}

\* Every search a caller can make on the store as it is after the step.
NeverFound(k) ==
    \A q \in Queries, n \in TopKs, f \in Filters, t \in Thresholds :
        LET r == similarity_search(Store', q, n, f, t)
        IN \A i \in DOMAIN r.results : r.results[i].chunk.id # k

\* C1: when delete_document(id) returns, every chunk that document id owned
\* before the call is gone: get_chunk finds none of them, no similarity
\* search returns one, and no chunk of document id is left in the tables.
C1_DeleteCascades ==
    [][(last'.op = "delete_document" /\ last'.outcome = "ok") =>
         /\ \A k \in OwnedBy(tx, last'.id) \cup OwnedBy(db, last'.id) :
               /\ get_chunk(Store', k).row = << >>
               /\ k \notin DOMAIN db'.chunks
               /\ NeverFound(k)
         /\ OwnedBy(tx', last'.id) = {}
         /\ OwnedBy(db', last'.id) = {}]_vars

\* A delete that found its document has returned and chunks of another
\* document are still stored.
C1_Witness ==
    /\ Returned("delete_document")
    /\ last.found
    /\ db.chunks # << >>

SameInstant(a, b) == a.t = b.t

\* The decoded JSON value of a metadata mapping: sequences become lists.
SameJson(got, put) ==
    /\ DOMAIN got = DOMAIN put
    /\ \A k \in DOMAIN put :
          /\ got[k].v = put[k].v
          /\ got[k].kind = (IF put[k].kind = "str" THEN "str" ELSE "list")

\* got is put rounded to the nearest value of the single-precision grid.
SameFloat4(got, put) == got % 2 = 0 /\ got - put \in {-1, 0, 1}

\* A timestamp read back from the store: timezone aware, same reading.
SameTime(got, put) == got.tz /\ SameInstant(got, put)

\* The fields that every upsert_document writes, equal up to the encoding.
DocFieldsMatch(got, d) ==
    /\ got.id = d.id
    /\ got.title = d.title
    /\ got.source_uri = d.source_uri
    /\ got.content = d.content
    /\ SameJson(got.metadata, d.metadata)
    /\ SameTime(got.updated_at, d.updated_at)

\* The fields that every upsert_chunk writes, equal up to the encoding.
ChunkFieldsMatch(got, c) ==
    /\ got.id = c.id
    /\ got.text = c.text
    /\ got.chunk_index = c.chunk_index
    /\ got.start_char = c.start_char
    /\ got.end_char = c.end_char
    /\ SameJson(got.metadata, c.metadata)
    /\ got.embedding.dim = c.embedding.dim
    /\ SameFloat4(got.embedding.x, c.embedding.x)
    /\ SameFloat4(got.embedding.y, c.embedding.y)
    /\ SameTime(got.updated_at, c.updated_at)

\* C2 as stated, read up to the storage encoding of timestamps, embeddings
\* and metadata: right after a successful upsert the lookup by id returns a
\* value equal to the argument on every field, also when the id was stored.
C2_RoundTripEveryField ==
    /\ Returned("upsert_document") =>
          LET got == get_document(Store, last.id).row
          IN /\ Len(got) = 1
             /\ DocFieldsMatch(got[1], last.doc[1])
             /\ SameTime(got[1].ingested_at, last.doc[1].ingested_at)
    /\ Returned("upsert_chunk") =>
          LET got == get_chunk(Store, last.id).row
          IN /\ Len(got) = 1
             /\ ChunkFieldsMatch(got[1], last.chunks[1])
             /\ got[1].document_id = last.chunks[1].document_id
             /\ SameTime(got[1].created_at, last.chunks[1].created_at)

\* C2 (amended): right after a successful upsert_document(d) (upsert_chunk(c)),
\* get_document(d.id) (get_chunk(c.id)) returns a value that equals the
\* argument on every field up to the storage encoding (timestamps come back
\* timezone aware, embedding components in single precision, metadata as
\* decoded JSON), except that when a row with that id existed before the
\* call, ingested_at (for a chunk: document_id and created_at) is the value
\* of that earlier row.
C2_RoundTrip ==
    [][/\ (last'.op = "upsert_document" /\ last'.outcome = "ok") =>
            LET d == last'.doc[1]
                got == get_document(Store', d.id).row
                old == tx.documents
            IN /\ Len(got) = 1
               /\ DocFieldsMatch(got[1], d)
               /\ IF d.id \in DOMAIN old
                  THEN got[1].ingested_at = old[d.id].ingested_at
                  ELSE SameTime(got[1].ingested_at, d.ingested_at)
       /\ (last'.op = "upsert_chunk" /\ last'.outcome = "ok") =>
            LET c == last'.chunks[1]
                got == get_chunk(Store', c.id).row
                old == tx.chunks
            IN /\ Len(got) = 1
               /\ ChunkFieldsMatch(got[1], c)
               /\ IF c.id \in DOMAIN old
                  THEN /\ got[1].document_id = old[c.id].document_id
                       /\ got[1].created_at = old[c.id].created_at
                  ELSE /\ got[1].document_id = c.document_id
                       /\ SameTime(got[1].created_at, c.created_at)]_vars

\* An upsert onto an existing id has returned and the stored row keeps a
\* field of the earlier row that differs from the argument.
C2_Witness ==
    \/ /\ Returned("upsert_document")
       /\ ~SameInstant(tx.documents[last.id].ingested_at, last.doc[1].ingested_at)
    \/ /\ Returned("upsert_chunk")
       /\ tx.chunks[last.id].document_id # last.chunks[1].document_id

\* C3: a store operation called while the store has no live connection
\* fails with RuntimeError("Not connected ...") and leaves self._conn alone.
C3_NotConnectedFails ==
    (last.op \in StoreOps /\ last.pre # "open") =>
        last.outcome = "RuntimeError" /\ conn = last.pre

\* score a is not less than score b, for two scores that are numbers >= 0.
NotLess(a, b) == a.num * a.num * b.den2 >= b.num * b.num * a.den2

\* C4: the list returned by similarity_search is in non-increasing order of
\* similarity, results of equal similarity are in ascending chunk id order,
\* and the i-th result has rank i.
C4_RankedOrder ==
    Returned("similarity_search") =>
        LET r == last.results
        IN \A i \in DOMAIN r :
              /\ r[i].rank = i
              /\ \A j \in DOMAIN r :
                    i < j =>
                      /\ NotLess(r[i].score, r[j].score)
                      /\ NotLess(r[j].score, r[i].score) =>
                            IdRank(r[i].chunk.id) < IdRank(r[j].chunk.id)

\* A search has returned two results of equal similarity.
C4_Witness ==
    /\ Returned("similarity_search")
    /\ Len(last.results) = 2
    /\ NotLess(last.results[2].score, last.results[1].score)

\* The metadata of a row satisfies every predicate of the filters.
SatisfiesAll(metadata, filters) ==
    \A key \in DOMAIN filters : Contains(metadata, key, filters[key])

\* The similarity of a stored embedding to the query is a number >= threshold.
Meets(embedding, query, threshold) ==
    LET sim == Similarity(embedding, Vector(query))
    IN /\ sim.den2 > 0
       /\ sim.num >= 0
       /\ sim.num * sim.num * threshold.d * threshold.d
            >= threshold.n * threshold.n * sim.den2

ResultIds == {last.results[i].chunk.id : i \in DOMAIN last.results}

\* C5: filters are ANDed.  Every chunk a search returns satisfies every
\* supplied predicate, and a stored chunk that satisfies them all is
\* returned unless the threshold or the top_k limit keeps it out.
C5_FilterConjunction ==
    Returned("similarity_search") =>
        /\ \A i \in DOMAIN last.results :
              SatisfiesAll(last.results[i].chunk.metadata, last.filters)
        /\ \A k \in DOMAIN tx.chunks :
              ( /\ SatisfiesAll(tx.chunks[k].metadata, last.filters)
                /\ Meets(tx.chunks[k].embedding, last.query, last.threshold)
                /\ Len(last.results) < last.top_k ) => k \in ResultIds

\* A search with two predicates has returned a chunk while a stored chunk
\* that satisfies one predicate but not the other is left out.
C5_Witness ==
    /\ Returned("similarity_search")
    /\ Cardinality(DOMAIN last.filters) = 2
    /\ last.results # << >>
    /\ \E k \in DOMAIN tx.chunks \ ResultIds :
          /\ \E key \in DOMAIN last.filters :
                Contains(tx.chunks[k].metadata, key, last.filters[key])
          /\ Meets(tx.chunks[k].embedding, last.query, last.threshold)

\* The stored chunks that satisfy the filters and the threshold of the call.
Matching ==
    {k \in DOMAIN tx.chunks :
        /\ SatisfiesAll(tx.chunks[k].metadata, last.filters)
        /\ Meets(tx.chunks[k].embedding, last.query, last.threshold)}

\* Chunk a comes ahead of chunk b: greater similarity, or equal and lower id.
Ahead(a, b) ==
    LET sa == Similarity(tx.chunks[a].embedding, Vector(last.query))
        sb == Similarity(tx.chunks[b].embedding, Vector(last.query))
    IN \/ ~NotLess(sb, sa)
       \/ NotLess(sa, sb) /\ IdRank(a) < IdRank(b)

\* C6: similarity_search returns the first min(top_k, M) chunks of the
\* ordering, M being the number of stored chunks that satisfy the filters
\* and have similarity >= threshold: no result is below the threshold and
\* there are never more than top_k results.
C6_ThresholdAndLimit ==
    Returned("similarity_search") =>
        /\ Len(last.results) =
              (IF last.top_k < Cardinality(Matching) THEN last.top_k
               ELSE Cardinality(Matching))
        /\ Cardinality(ResultIds) = Len(last.results)
        /\ ResultIds \subseteq Matching
        /\ \A a \in ResultIds : \A b \in Matching \ ResultIds : Ahead(a, b)

\* A search has returned top_k results and left out a stored chunk that
\* matches too.
C6_Witness ==
    /\ Returned("similarity_search")
    /\ Len(last.results) = last.top_k
    /\ Cardinality(Matching) > last.top_k

RowOf(chunks, k) == IF k \in DOMAIN chunks THEN <<chunks[k]>> ELSE << >>

\* C8: upsert_chunks_batch is all or nothing.  A batch that fails leaves the
\* committed chunk table as it was, and no later call commits a row of it:
\* a committed chunk row changes only through a call that returns normally
\* and that wrote this row itself (or deleted its document).
C8_BatchAllOrNothing ==
    [][/\ (last'.op = "upsert_chunks_batch" /\ last'.outcome # "ok") => db' = db
       /\ \A k \in ChunkIds :
            RowOf(db'.chunks, k) # RowOf(db.chunks, k) =>
               /\ last'.outcome = "ok"
               /\ \/ last'.op = "delete_document"
                  \/ /\ last'.op \in {"upsert_chunk", "upsert_chunks_batch"}
                     /\ \E i \in DOMAIN last'.chunks : last'.chunks[i].id = k]_vars

\* C9: when upsert_document, upsert_chunk, upsert_chunks_batch or
\* delete_document returns normally, no uncommitted write is pending on the
\* connection: what the connection sees is what is committed.
C9_CommittedOnReturn ==
    ( /\ last.op \in {"upsert_document", "upsert_chunk", "upsert_chunks_batch",
                      "delete_document"}
      /\ last.outcome = "ok" ) => tx = db

ReferentialIntegrity(data) ==
    \A k \in DOMAIN data.chunks : data.chunks[k].document_id \in DOMAIN data.documents

\* C10: in every state each stored chunk names a stored document, and an
\* upsert_chunk that inserts a chunk whose document is not stored fails and
\* stores nothing, with ForeignKeyViolation whenever the statement is run.
C10_ReferentialIntegrity ==
    /\ [](ReferentialIntegrity(db) /\ ReferentialIntegrity(tx))
    /\ [][( /\ last'.op = "upsert_chunk"
            /\ last'.id \notin DOMAIN tx.chunks
            /\ last'.chunks[1].document_id \notin DOMAIN tx.documents ) =>
              /\ last'.outcome # "ok"
              /\ db' = db
              /\ last'.id \notin DOMAIN tx'.chunks
              /\ ( /\ conn = "open"
                   /\ txstatus # "inerror"
                   /\ JsonSerialisable(last'.chunks[1].metadata) ) =>
                     last'.outcome = "ForeignKeyViolation"]_vars

\* An upsert_chunk naming a missing document has failed with the foreign
\* key error while the store holds other rows.
C10_Witness ==
    /\ last.op = "upsert_chunk"
    /\ last.outcome = "ForeignKeyViolation"
    /\ db.documents # << >>

\* C11: a similarity_search on a connected store whose query embedding does
\* not have EMBEDDING_DIM components fails with the dimension-mismatch
\* ValueError, and the connection, its transaction status and the tables are
\* what they were before the call: no statement was sent.
C11_DimensionMismatch ==
    [][( /\ last'.op = "similarity_search"
         /\ conn = "open"
         /\ last'.query.dim # EMBEDDING_DIM ) =>
           /\ last'.outcome = "ValueError"
           /\ last'.results = << >>
           /\ Store' = Store]_vars

\* A search with a short query embedding has failed on an open connection
\* that holds chunks.
C11_Witness ==
    /\ last.op = "similarity_search"
    /\ last.pre = "open"
    /\ last.query.dim # EMBEDDING_DIM
    /\ last.outcome = "ValueError"
    /\ DOMAIN tx.chunks # {}

HasDimension(chunk) == chunk.embedding.dim = EMBEDDING_DIM

\* C12: every chunk has an embedding of EMBEDDING_DIM components: the chunks a
\* constructor call produced, the chunks stored (committed or pending), and
\* the chunks get_chunk and similarity_search return.  A constructor call
\* with an embedding of another length fails with ValidationError and
\* produces no chunk; a successful one keeps the embedding it was given.
C12_EmbeddingDimension ==
    /\ \A k \in DOMAIN db.chunks : HasDimension(db.chunks[k])
    /\ \A k \in DOMAIN tx.chunks : HasDimension(tx.chunks[k])
    /\ last.op = "get_chunk" => \A i \in DOMAIN last.row : HasDimension(last.row[i])
    /\ \A i \in DOMAIN last.results : HasDimension(last.results[i].chunk)
    /\ last.op = "Chunk" =>
          IF last.embedding.dim = EMBEDDING_DIM
          THEN /\ last.outcome = "ok"
               /\ Len(last.chunks) = 1
               /\ last.chunks[1].embedding = last.embedding
          ELSE /\ last.outcome = "ValidationError"
               /\ last.chunks = << >>

\* A constructor call with 100 floats has failed while the store holds a
\* chunk.
C12_Witness ==
    /\ last.op = "Chunk"
    /\ last.embedding.dim = 100
    /\ last.outcome = "ValidationError"
    /\ DOMAIN db.chunks # {}

\* The step is a search with threshold 0, no filters, a query of the
\* configured length and top_k = N, made right after a batch upsert of N
\* chunks with N distinct ids returned, none of the embeddings involved being
\* the zero vector.
SearchAfterBatch ==
    /\ last.op = "upsert_chunks_batch"
    /\ last.outcome = "ok"
    /\ last.chunks # << >>
    /\ \A i, j \in DOMAIN last.chunks : last.chunks[i].id = last.chunks[j].id => i = j
    /\ last'.op = "similarity_search"
    /\ last'.query.dim = EMBEDDING_DIM
    /\ last'.filters = EmptyMeta
    /\ last'.threshold.n = 0
    /\ last'.top_k = Len(last.chunks)
    /\ \A i \in DOMAIN last.chunks :
          ~IsNaN(Similarity(Vector(last.chunks[i].embedding), Vector(last'.query)))

\* C13 as stated: a threshold-0 search with top_k = N that follows a batch
\* upsert of N chunks returns exactly N results.
C13_BatchThenSearchAll ==
    [][SearchAfterBatch =>
          /\ last'.outcome = "ok"
          /\ Len(last'.results) = Len(last.chunks)]_vars

\* C13: a threshold-0 search with top_k = N that follows a batch upsert of N
\* chunks returns exactly N results when no chunk of the batch has a negative
\* cosine similarity to the query.
C13_BatchThenSearch ==
    [][( /\ SearchAfterBatch
         /\ \A i \in DOMAIN last.chunks :
               Meets(Vector(last.chunks[i].embedding), last'.query,
                     [n |-> 0, d |-> 1]) ) =>
           /\ last'.outcome = "ok"
           /\ Len(last'.results) = Len(last.chunks)]_vars

\* A search with top_k = 2 has returned the two chunks stored in the tables.
C13_Witness ==
    /\ last.op = "similarity_search"
    /\ last.outcome = "ok"
    /\ last.threshold.n = 0
    /\ last.filters = EmptyMeta
    /\ last.top_k = 2
    /\ Len(last.results) = 2
    /\ Cardinality(DOMAIN tx.chunks) = 2

\* The schema objects ensure_schema is to leave behind: the extension, both
\* tables, and the four indexes, the vector index being one of the two kinds.
FourIndexes(c) ==
    /\ {"chunks_document_id_idx", "chunks_metadata_idx", "chunks_created_at_idx"}
          \subseteq c.indexes
    /\ \/ "chunks_embedding_hnsw_idx" \in c.indexes
       \/ "chunks_embedding_ivfflat_idx" \in c.indexes

\* C14: ensure_schema called on a database where a call of it has succeeded
\* succeeds again and leaves the extension, the tables, the indexes and every
\* stored row as they were.
C14_EnsureSchemaIdempotent ==
    [][( /\ ddl'.op = "ensure_schema"
         /\ ddl'.tick # ddl.tick
         /\ ddl.ensured ) =>
           /\ ddl'.outcome = "ok"
           /\ catalog' = catalog
           /\ db' = db
           /\ tx' = tx
           /\ TablesExist /\ FourIndexes(catalog) /\ catalog.extension]_vars

\* ensure_schema has succeeded a second time on a database that holds a
\* document and a chunk.
C14_Witness ==
    /\ ddl.op = "ensure_schema"
    /\ ddl.outcome = "ok"
    /\ ddl.again
    /\ last.op = "upsert_chunk"
    /\ last.outcome = "ok"
    /\ DOMAIN db.chunks # {}
    /\ DOMAIN db.documents # {}

\* C15: when the server rejects the HNSW index, ensure_schema still returns
\* normally, having committed the extension, both tables, the IVFFlat index
\* and the three other indexes.
C15_FallbackToIvfflat ==
    (ddl.op = "ensure_schema" /\ "hnsw" \notin engine) =>
        /\ ddl.outcome = "ok"
        /\ ddl.txstatus = "idle"
        /\ TablesExist
        /\ FourIndexes(catalog)
        /\ "chunks_embedding_ivfflat_idx" \in catalog.indexes

\* C16: connect() returns normally with the store connected; it opens a
\* connection exactly when self._conn was None or closed, and on a live
\* connection it changes nothing: the connection, its transaction and what
\* it has pending stay.
C16_ConnectReentrant ==
    [][last'.op = "connect" =>
          /\ last'.outcome = "ok"
          /\ conn' = "open"
          /\ last'.opened <=> last'.pre \in {"none", "closed"}
          /\ (conn = "open" /\ last'.pre = "open") => Store' = Store]_vars

\* connect() has been called on a live connection that has a transaction
\* open with a write pending.
C16_Witness ==
    /\ last.op = "connect"
    /\ last.pre = "open"
    /\ ~last.opened
    /\ txstatus = "intrans"
    /\ tx # db

\* C17: when a `with` block is left, normally or by an exception (that of a
\* failed store operation included), the store's connection is closed
\* afterwards, nothing pending is committed, and the exception that left the
\* block is the one the caller gets; close() on a store whose connection is
\* closed or was never made returns normally and changes nothing.
C17_ExitCloses ==
    [][ /\ (block = "in" /\ block' = "out") =>
              /\ conn' = "closed"
              /\ db' = db
              /\ last'.outcome = last.outcome
        /\ (last'.op = "close" /\ last'.pre # "open" /\ conn # "open") =>
              /\ last'.outcome = "ok"
              /\ Store' = Store ]_vars

\* A block has been left by the exception of a failed store operation and
\* the connection is closed.
C17_Witness ==
    /\ last.op = "__exit__"
    /\ last.outcome = "ForeignKeyViolation"
    /\ last.pre = "open"
    /\ conn = "closed"

\* C18: after a recency rerank of a non-empty list, the ranks of the returned
\* list are 1..N in list order and its scores, the boosted ones, never
\* increase along the list; the list holds the results that were passed.
C18_RanksFollowScores ==
    (rr.calls > 0 /\ strategy = "recency" /\ rr.input # << >>) =>
        /\ rr.output = results
        /\ Len(results) = Len(rr.input)
        /\ Range(results) = Range(rr.input)
        /\ \A p \in DOMAIN results : objs[results[p]].rank = p
        /\ \A p \in 1..(Len(results) - 1) :
              ~ScoreGreater(objs[results[p + 1]].score, objs[results[p]].score)

\* A recency rerank has moved an older result with a higher score ahead of
\* a newer one.
C18_Witness ==
    /\ rr.calls > 0
    /\ strategy = "recency"
    /\ Len(results) = 3
    /\ objs[results[1]].created_at < objs[results[2]].created_at
    /\ ScoreGreater(objs[results[1]].score, objs[results[2]].score)

\* C19: in a recency rerank of N >= 2 results taken newest first, the
\* multiplier is 1.0 for the newest result and 0.9 for the oldest, falls by
\* equal steps in between, and always lies in [0.9, 1.0].
C19_LinearDecay ==
    (rr.calls > 0 /\ strategy = "recency" /\ Len(rr.input) >= 2) =>
        LET f == rr.factors
            n == Len(rr.factors)
        IN /\ n = Len(rr.input)
           /\ f[1].num = f[1].den
           /\ 10 * f[n].num = 9 * f[n].den
           /\ \A p \in 1..n : 10 * f[p].num >= 9 * f[p].den /\ f[p].num <= f[p].den
           /\ \A p \in 1..(n - 2) :
                 (f[p].num * f[p + 1].den - f[p + 1].num * f[p].den) * f[p + 2].den
                   = (f[p + 1].num * f[p + 2].den - f[p + 2].num * f[p + 1].den) * f[p].den

\* The step is a rerank call that has nothing to do: the strategy is "none"
\* or is not one the reranker knows, or the list is empty.
PassThrough ==
    /\ rr'.calls = rr.calls + 1
    /\ strategy \notin {"recency"} \/ results = << >>

\* C20: rerank with strategy "none", with a strategy it does not know, or
\* with an empty list returns the list it was given: the same list object,
\* with the same elements in the same order, their scores and ranks as they
\* were.
C20_PassThrough ==
    [][PassThrough =>
          /\ rr'.same
          /\ rr'.output = results
          /\ results' = results
          /\ objs' = objs]_vars

\* A reranker with the strategy "metadata" has returned a list of three
\* results whose creation order and score order both differ from the list
\* order.
C20_Witness ==
    /\ rr.calls > 0
    /\ strategy = "metadata"
    /\ rr.same
    /\ Len(results) = 3
    /\ results = <<1, 2, 3>>
    /\ objs[1].created_at < objs[2].created_at
    /\ ScoreGreater(objs[3].score, objs[2].score)
    /\ objs[1].rank = 2

Finished == rt.pc \in {"returned", "raised"}

\* C21: when every call of the wrapped function raises an exception of the
\* allow-list, the wrapper has called it exactly max_retries times when it
\* finishes, and it finishes by raising the exception of the last call,
\* whatever max_retries is.
C21_ExhaustedReraises ==
    (Finished /\ rt.func.first_ok = 0 /\ rt.func.exc \in rt.exceptions) =>
        /\ rt.calls = rt.max_retries
        /\ rt.result.kind = "raise"
        /\ rt.result.value = rt.func.exc
        /\ rt.result.call = rt.calls

\* C22 as stated: when the wrapped function first succeeds on its k-th call
\* and k <= max_retries, the wrapper returns the value of that call, having
\* made exactly k calls, whatever the earlier calls raised.
C22_ReturnsFirstSuccessAlways ==
    (Finished /\ rt.func.first_ok \in 1..rt.max_retries) =>
        /\ rt.calls = rt.func.first_ok
        /\ rt.result = [kind |-> "return", value |-> "success",
                        call |-> rt.func.first_ok]

\* C22: when the wrapped function first succeeds on its k-th call and
\* k <= max_retries, the wrapper returns the value of that call, having made
\* exactly k calls (the earlier failures being of the allow-list).
C22_ReturnsFirstSuccess ==
    /\ ( /\ Finished
         /\ rt.func.first_ok \in 1..rt.max_retries
         /\ rt.func.exc \in rt.exceptions ) =>
           /\ rt.calls = rt.func.first_ok
           /\ rt.result = [kind |-> "return", value |-> "success",
                           call |-> rt.func.first_ok]
    /\ ( /\ rt.func.first_ok \in 1..rt.max_retries
         /\ rt.func.exc \in rt.exceptions ) => rt.calls <= rt.func.first_ok

\* The wrapper has returned the value of the third call after two failures.
C22_Witness ==
    /\ rt.pc = "returned"
    /\ rt.func.first_ok = 3
    /\ rt.max_retries = 3
    /\ rt.calls = 3
    /\ Len(rt.sleeps) = 2

RECURSIVE Power(_, _)
Power(b, n) == IF n = 0 THEN 1 ELSE b * Power(b, n - 1)

\* C27: the wrapper has slept once after every call of the function but the
\* last one it makes, never after the final attempt or a success, and its
\* j-th sleep lasted initial_delay * backoff_factor^(j-1).
C27_SleepsBetweenAttempts ==
    /\ Len(rt.sleeps) =
          (CASE rt.pc = "loop" -> rt.calls
             [] rt.calls = 0 -> 0
             [] OTHER -> rt.calls - 1)
    /\ Finished => Len(rt.sleeps) < rt.max_retries \/ rt.max_retries = 0
    /\ \A j \in DOMAIN rt.sleeps :
          rt.sleeps[j] = rt.initial_delay * Power(rt.backoff_factor, j - 1)

\* The wrapper has given up after three failed attempts and two sleeps, the
\* second twice as long as the first.
C27_Witness ==
    /\ rt.pc = "raised"
    /\ rt.calls = 3
    /\ Len(rt.sleeps) = 2
    /\ rt.sleeps[2] = 2 * rt.sleeps[1]

\* C24: DeterministicRelevanceGrader.grade(query, text) returns the score
\* |Q intersect T| / |Q|, where Q and T are the sets of the lower-cased,
\* whitespace-separated words of query and text, and the score 0 when Q is
\* empty; passed is true iff the score is at least the grader's threshold,
\* and the score lies in [0, 1].
LowerWords(s) ==
    LET t == lower(s)
        IsWord(i, j) ==
            /\ i <= j
            /\ \A k \in i..j : t[k] # " "
            /\ (i = 1 \/ t[i - 1] = " ")
            /\ (j = Len(t) \/ t[j + 1] = " ")
    IN {SubSeq(t, i, j) : <<i, j>> \in
            {p \in (1..Len(t)) \X (1..Len(t)) : IsWord(p[1], p[2])}}

C24_OverlapScore ==
    gd.op = "grade" =>
        LET Q == LowerWords(gd.query)
            T == LowerWords(gd.text)
            inter == Cardinality(Q \cap T)
            score == gd.grade.score
        IN /\ score.d > 0
           /\ IF Q = {} THEN score.n = 0
              ELSE score.n * Cardinality(Q) = inter * score.d
           /\ gd.grade.passed <=> score.n * gd.threshold.d >= gd.threshold.n * score.d
           /\ 0 <= score.n /\ score.n <= score.d

C24_Witness ==
    /\ gd.op = "grade"
    /\ gd.grade.score.n = 1
    /\ gd.grade.score.d = 2
    /\ gd.grade.passed
    /\ \E i \in DOMAIN gd.query : gd.query[i] = "A"

\* C23: filter_relevant(query, results, threshold) returns, in their original
\* relative order, exactly the results whose relevance score is at least the
\* effective threshold: the threshold argument when one is given, the
\* instance threshold otherwise.
EffectiveThreshold == IF gd.override # << >> THEN gd.override[1] ELSE gd.threshold

C23_FilterByEffectiveThreshold ==
    gd.op = "filter_relevant" =>
        gd.filtered =
            SelectSeq(gd.results,
                      LAMBDA r : LET score == relevance_score(gd.query, r.text)
                                 IN score.n * EffectiveThreshold.d >=
                                        EffectiveThreshold.n * score.d)

\* C25: DeterministicGroundednessGrader.grade returns passed = true with the
\* score 1.0 whenever the answer has no period-delimited unit longer than the
\* minimum length, whatever the context is, the empty context included.
HasLongUnit(answer, min) ==
    \E i \in 1..Len(answer), j \in 1..Len(answer) :
        /\ j - i + 1 > min
        /\ \A k \in i..j : answer[k] # "."
        /\ answer[i] # " "
        /\ answer[j] # " "

C25_NoSentencesPasses ==
    (gd.op = "groundedness" /\ ~HasLongUnit(gd.answer, gd.min_substring_length)) =>
        /\ gd.grade.passed
        /\ gd.grade.score.n = gd.grade.score.d
        /\ gd.grade.score.d > 0

C25_Witness ==
    /\ gd.op = "groundedness"
    /\ gd.min_substring_length = 10
    /\ ~HasLongUnit(gd.answer, gd.min_substring_length)
    /\ Len(gd.answer) > gd.min_substring_length
    /\ gd.context = << >>
    /\ gd.grade.passed

\* C26: build_filters returns a mapping holding exactly: 'category' when a
\* category is given; 'source' equal to the single source when given,
\* otherwise to the first element of the sources list when given; 'tags' equal
\* to the full tag list when given; a user_id never adds or changes a key, and
\* with no criteria the mapping is empty.  Here "given" is "not None".
Given(opt) == opt # << >>

ExpectedKeys(hasCategory, hasSource, hasTags) ==
    (IF hasCategory THEN {"category"} ELSE {}) \cup
    (IF hasSource THEN {"source"} ELSE {}) \cup
    (IF hasTags THEN {"tags"} ELSE {})

C26_FiltersOfGivenCriteria ==
    bf.op = "build_filters" =>
        /\ DOMAIN bf.filters =
               ExpectedKeys(Given(bf.category),
                            Given(bf.source) \/ Given(bf.sources),
                            Given(bf.tags))
        /\ Given(bf.category) => bf.filters["category"] = bf.category[1]
        /\ Given(bf.source) => bf.filters["source"] = bf.source[1]
        /\ (~Given(bf.source) /\ Given(bf.sources)) =>
               bf.filters["source"] = bf.sources[1][1]
        /\ Given(bf.tags) => bf.filters["tags"] = bf.tags[1]

\* C26, amended: the same with "given" as "given and not empty": an empty
\* string or an empty list counts as a criterion that is absent.
C26_FiltersOfNonEmptyCriteria ==
    bf.op = "build_filters" =>
        /\ DOMAIN bf.filters =
               ExpectedKeys(TruthyStr(bf.category),
                            TruthyStr(bf.source) \/ TruthyList(bf.sources),
                            TruthyList(bf.tags))
        /\ TruthyStr(bf.category) => bf.filters["category"] = bf.category[1]
        /\ TruthyStr(bf.source) => bf.filters["source"] = bf.source[1]
        /\ (~TruthyStr(bf.source) /\ TruthyList(bf.sources)) =>
               bf.filters["source"] = bf.sources[1][1]
        /\ TruthyList(bf.tags) => bf.filters["tags"] = bf.tags[1]

C26_Witness ==
    /\ bf.op = "build_filters"
    /\ bf.source = << >>
    /\ bf.sources # << >>
    /\ Len(bf.sources[1]) = 2
    /\ bf.sources[1][1] = "a.pdf"
    /\ bf.sources[1][2] = "b.pdf"
    /\ bf.user_id = <<"u1">>
    /\ bf.tags # << >>
    /\ Len(bf.tags[1]) = 2
    /\ DOMAIN bf.filters = {"source", "tags"}
    /\ bf.filters["source"] = "a.pdf"

\* C28: RetrievalResult values are read-only for the reranker: after rerank
\* returns, every result object passed in has the score and the rank it had
\* before the call.
C28_RerankKeepsObjects ==
    [][(rr'.calls # rr.calls) =>
          \A o \in DOMAIN objs :
              /\ objs'[o].score.num * objs[o].score.den =
                     objs[o].score.num * objs'[o].score.den
              /\ objs'[o].rank = objs[o].rank]_vars

\* The last chunk of a batch that has id k.
LastWith(chunks, k) ==
    LET at == CHOOSE i \in DOMAIN chunks :
                  /\ chunks[i].id = k
                  /\ \A j \in DOMAIN chunks : chunks[j].id = k => j <= i
    IN chunks[at]

\* The statement of a chunk upsert reaches the server and is run there.
ChunkStatementRuns(chunks) ==
    /\ conn = "open"
    /\ txstatus # "inerror"
    /\ \A i \in DOMAIN chunks : JsonSerialisable(chunks[i].metadata)

\* C29: an upsert onto an existing id never changes the ownership and creation
\* fields of the row: upsert_chunk and upsert_chunks_batch leave the stored
\* document_id and created_at as first inserted, and succeed even when the
\* supplied document_id names no stored document; upsert_document leaves
\* ingested_at as first inserted; every other field takes the supplied value.
C29_UpsertKeepsOwnership ==
    [][/\ ( /\ last'.op = "upsert_document"
            /\ last'.outcome = "ok"
            /\ last'.id \in DOMAIN tx.documents ) =>
              LET now == db'.documents[last'.id]
              IN /\ now.ingested_at = tx.documents[last'.id].ingested_at
                 /\ DocFieldsMatch(now, last'.doc[1])
       /\ ( /\ last'.op \in {"upsert_chunk", "upsert_chunks_batch"}
            /\ last'.chunks # << >>
            /\ \A i \in DOMAIN last'.chunks : last'.chunks[i].id \in DOMAIN tx.chunks
            /\ ChunkStatementRuns(last'.chunks) ) => last'.outcome = "ok"
       /\ ( /\ last'.op \in {"upsert_chunk", "upsert_chunks_batch"}
            /\ last'.outcome = "ok" ) =>
              \A i \in DOMAIN last'.chunks :
                  LET k == last'.chunks[i].id
                  IN k \in DOMAIN tx.chunks =>
                       /\ db'.chunks[k].document_id = tx.chunks[k].document_id
                       /\ db'.chunks[k].created_at = tx.chunks[k].created_at
                       /\ ChunkFieldsMatch(db'.chunks[k], LastWith(last'.chunks, k))]_vars

\* An upsert_chunks_batch has returned after writing onto a stored chunk of
\* another document, while the document its argument names is not stored.
C29_Witness ==
    /\ Returned("upsert_chunks_batch")
    /\ last.chunks # << >>
    /\ last.chunks[1].document_id \notin DOMAIN db.documents
    /\ db.chunks[last.chunks[1].id].document_id # last.chunks[1].document_id
    /\ db.chunks[last.chunks[1].id].text = last.chunks[1].text

\* The call that a step makes is valid: it succeeds on a store that has just
\* been connected, whatever is stored.
ValidCall(call) ==
    \/ call.op \in {"get_document", "get_chunk", "delete_document"}
    \/ call.op = "upsert_document" /\ JsonSerialisable(call.doc[1].metadata)

\* C30: a store operation that fails with a storage error (an upsert_chunk
\* or upsert_chunks_batch that violates the foreign key) leaves the committed
\* data unchanged and the store usable: the next valid operation on the same
\* connected store succeeds, with no close() and connect() in between.
C30_UsableAfterStorageError ==
    [][/\ last'.outcome = "ForeignKeyViolation" => db' = db
       /\ ( /\ last.outcome = "ForeignKeyViolation"
            /\ last'.op \in StoreOps
            /\ ValidCall(last') ) => last'.outcome = "ok"]_vars

====
